---- MODULE Spec2Model ----
(***************************************************************************)
(* Model of src/generator/generator.py: the per-game driver analyze_game,  *)
(* the per-ply classifier analyze_position, the two recursive cooking      *)
(* procedures cook_mate and cook_advantage, and the forcing predicates     *)
(* is_valid_mate_in_one / is_valid_attack / get_next_pair.                 *)
(*                                                                         *)
(* The chess rules library, the engine, the server and util.py are         *)
(* collaborators: what they answer is drawn with \E in the action that     *)
(* asks them.  Win chances are in permille (0.6 is 600).                   *)
(***************************************************************************)
EXTENDS Integers, Sequences, FiniteSets

\* ------------------------------------------------------------------ bounds
MaxPlies == 5        \* mainline plies analyze_game iterates over
GameLineCap == 2     \* longest cooked line inside a whole-game run
MaxLine == 6         \* longest cooked line when analyze_position is run alone
MaxPositions == 1    \* positions a cooked line moves among when they are told apart

\* --------------------------------------------------------------- scores
\* chess.engine.Cp / chess.engine.Mate
Cp(x) == [k |-> "cp", v |-> x]
Mate(n) == [k |-> "mate", v |-> n]
None == [k |-> "none", v |-> 0]

\* Score.__neg__
Neg(s) == [s EXCEPT !.v = 0 - s.v]

\* The total order of chess.engine.Score: negative mates, then centipawns,
\* then positive mates; a shorter mate is better for the mating side.
MateBase == 1000000
Rank(s) ==
    IF s.k = "cp" THEN s.v
    ELSE IF s.v > 0 THEN MateBase - s.v
    ELSE 0 - MateBase - s.v
Lt(a, b) == Rank(a) < Rank(b)
Gt(a, b) == Rank(a) > Rank(b)
Ge(a, b) == Rank(a) >= Rank(b)

\* PovScore(relative, turn).pov(color)
Pov(relative, turn, color) == IF turn = color THEN relative ELSE Neg(relative)

Other(color) == IF color = "white" THEN "black" ELSE "white"

mate_soon == Mate(15)

\* util.win_chances, in permille: +-1000 for a mate, a saturating odd curve
\* through 0 for centipawns.
Sigmoid(cp) ==
    CASE cp = 0 -> 0
      [] cp = 20 -> 37
      [] cp = 50 -> 92
      [] cp = 100 -> 182
      [] cp = 250 -> 430
      [] cp = 320 -> 529
      [] cp = 500 -> 726
      [] cp = 600 -> 802
win_chances(s) ==
    IF s.k = "mate" THEN (IF s.v > 0 THEN 1000 ELSE -1000)
    ELSE IF s.v >= 0 THEN Sigmoid(s.v) ELSE 0 - Sigmoid(0 - s.v)

\* --------------------------------------------------------------- inputs
Tiers == {1, 2, 10}
main_tier == 10      \* the tier main() passes

\* piece placements a move can reach
Placements == {"a"}

\* [%eval] annotations of the game record, from White's point of view
GameEvals == {Cp(500), Mate(3), Mate(-3)}

\* scores the engine reports, relative to the side to move
EngineScores == {Mate(1), Mate(15), Mate(16), Cp(250), Cp(100), Cp(-250)}

\* the arguments of an analyze_position call made on its own
PosEvals == {Cp(-50), Cp(-320), Cp(-500), Mate(-1), Mate(-3), Mate(-15)}
PosPrevScores == {Cp(20), Cp(-50), Cp(500)}

\* ------------------------------------------------- optional values, moves
\* Optional[List[...]]: absence (None) or a list
Absent == [ok |-> FALSE, seq |-> <<>>]
Some(s) == [ok |-> TRUE, seq |-> s]

\* A move of a cooked line: the one played from the line's position `at`,
\* taken from the pair's best line, its second line, or engine.play.
Move(at, from) == [at |-> at, from |-> from]

Puzzle(n, moves, rating) == [k |-> "puzzle", node |-> n, moves |-> moves, rating |-> rating]
Raised == [k |-> "raised", v |-> 0]
IsPuzzle(r) == r.k = "puzzle"
IsScore(r) == r.k \in {"cp", "mate"}


\* ------------------------------------------------------ engine answers
NonIncreasing(s) == \A i \in 1..(Len(s) - 1) : Ge(s[i], s[i + 1])

\* engine.analyse(board, multipv = 2): one or two lines, best first
EngineLines ==
    {s \in UNION {[1..n -> EngineScores] : n \in 1..2} : NonIncreasing(s)}

\* engine.analyse(board, multipv = 5) on the winner's turn: up to five lines
multipv == 5
InfoScores == {Mate(1), Mate(2), Cp(600), Cp(250)}
InfoLines ==
    {s \in UNION {[1..n -> InfoScores] : n \in 1..multipv} : NonIncreasing(s)}

\* util.get_next_move_pair: the top two lines as a pair, from the winner's
\* point of view; second is absent when the engine gave one line.
get_next_move_pair(lines, turn, winner) ==
    [best |-> Pov(lines[1], turn, winner),
     second |-> IF Len(lines) > 1 THEN Pov(lines[2], turn, winner) ELSE None]

\* ------------------------------------------------- forcing predicates
non_mate_win_threshold == 600
attack_margin == 700

\* whether is_valid_mate_in_one reaches its engine.analyse call (line 45)
requeries(pair) ==
    /\ pair.best = Mate(1)
    /\ ~(pair.second = None \/ win_chances(pair.second) <= non_mate_win_threshold)
    /\ pair.second = Mate(1)

\* Variant of is_valid_mate_in_one: only lines that are no mate at all count
is_valid_mate_in_one_non_mate(pair, info) ==
    IF pair.best # Mate(1) THEN FALSE
    ELSE IF pair.second = None \/ win_chances(pair.second) <= non_mate_win_threshold
         THEN TRUE
    ELSE IF pair.second = Mate(1)
         THEN ~ \E i \in 1..Len(info) :
                  /\ info[i].k # "mate"
                  /\ win_chances(info[i]) > non_mate_win_threshold
    ELSE FALSE

\* is_valid_mate_in_one; info is the multipv = 5 answer, read only when
\* requeries(pair)
is_valid_mate_in_one(pair, info) ==
    IF pair.best # Mate(1) THEN FALSE
    ELSE IF pair.second = None \/ win_chances(pair.second) <= non_mate_win_threshold
         THEN TRUE
    ELSE IF pair.second = Mate(1)
         THEN ~ \E i \in 1..Len(info) :
                  /\ Lt(info[i], Mate(1))
                  /\ win_chances(info[i]) > non_mate_win_threshold
    ELSE FALSE

\* Variant of is_valid_attack: a missing second line is no reason to accept
is_valid_attack_two_lines(pair, info) ==
    \/ is_valid_mate_in_one(pair, info)
    \/ win_chances(pair.best) > win_chances(pair.second) + attack_margin

is_valid_attack(pair, info) ==
    \/ pair.second = None
    \/ is_valid_mate_in_one(pair, info)
    \/ win_chances(pair.best) > win_chances(pair.second) + attack_margin

\* get_next_pair, given the probed pair: the pair, or None
get_next_pair(pair, turn, winner, info) ==
    IF turn = winner /\ ~is_valid_attack(pair, info) THEN None ELSE pair

\* ------------------------------------------------------------- cooking
\* Variant of mate_step: the mate_soon test left out
mate_step_any_score(pair) == IF pair = None THEN "fail" ELSE "go"

\* cook_mate on the winner's turn (lines 79-85): "fail" (return None) or
\* "go" (play pair.best.move and recurse)
mate_step(pair) ==
    IF pair = None THEN "fail"
    ELSE IF Lt(pair.best, mate_soon) THEN "fail"
    ELSE "go"

\* Variant of advantage_step: a best score below +200cp ends the line with
\* [] as a failed attack does
advantage_step_stops_on_drop(pair) ==
    IF pair = None THEN "stop"
    ELSE IF Lt(pair.best, Cp(200)) THEN "stop"
    ELSE "go"

\* cook_advantage after the probe (lines 109-113): "stop" (return []),
\* "fail" (return None) or "go" (recurse)
advantage_step(pair) ==
    IF pair = None THEN "stop"
    ELSE IF Lt(pair.best, Cp(200)) THEN "fail"
    ELSE "go"

\* What the outermost call returns once the innermost call returned `base`:
\* every frame on the way up gives None for None and else puts its own
\* element in front (lines 94-97 and 117-120).
RECURSIVE Unwind(_, _)
Unwind(frames, base) ==
    IF ~base.ok THEN Absent
    ELSE IF frames = <<>> THEN base
    ELSE Unwind(SubSeq(frames, 1, Len(frames) - 1),
                Some(<<frames[Len(frames)]>> \o base.seq))

\* ---------------------------------------------------- analyze_position
MaterialDiffs == {-1, 0, 1}

\* The ordered classification of lines 175-226, before deduplication:
\* "score" (return the score), "mate" or "advantage" (probe).
\* few: board.legal_moves.count() < 2; md: util.material_diff(board, winner)
classify(few, prev, score, md, t) ==
    IF few THEN "score"
    ELSE IF Gt(prev, Cp(300)) /\ Lt(score, mate_soon) THEN "score"
    ELSE IF md > 0 THEN "score"
    ELSE IF Ge(score, Mate(1)) /\ t < 3 THEN "score"
    ELSE IF Gt(score, mate_soon) THEN "mate"
    ELSE IF /\ Ge(score, Cp(200))
            /\ win_chances(score) > win_chances(prev) + 600
         THEN IF Lt(score, Cp(400)) /\ md > -1 THEN "score" ELSE "advantage"
    ELSE "score"

\* Variant of mate_result: three-move mates dropped below tier 3
mate_result_below_three(t, n, score, mate_solution) ==
    IF ~mate_solution.ok \/ (t < 3 /\ Len(mate_solution.seq) = 3) THEN score
    ELSE Puzzle(n, mate_solution.seq, 999999999)

\* Variant of mate_result: the Puzzle leaves out the first move of the line
mate_result_without_first(t, n, score, mate_solution) ==
    IF ~mate_solution.ok \/ (t = 1 /\ Len(mate_solution.seq) = 3) THEN score
    ELSE Puzzle(n, IF mate_solution.seq = <<>> THEN <<>>
                   ELSE Tail(mate_solution.seq), 999999999)

\* lines 197-199
mate_result(t, n, score, mate_solution) ==
    IF ~mate_solution.ok \/ (t = 1 /\ Len(mate_solution.seq) = 3) THEN score
    ELSE Puzzle(n, mate_solution.seq, 999999999)

\* The while loop of lines 213-216 on a non-empty list: the trimmed list,
\* or Absent when solution[-1] is evaluated on the empty list (IndexError).
RECURSIVE trim(_)
trim(solution) ==
    IF Len(solution) % 2 = 0
    THEN IF solution = <<>> THEN Absent
         ELSE trim(SubSeq(solution, 1, Len(solution) - 1))
    ELSE IF ~solution[Len(solution)].second
         THEN trim(SubSeq(solution, 1, Len(solution) - 1))
    ELSE Some(solution)

\* lines 223-224: the rating of an advantage puzzle
rating(pair) == IF pair.cp = None THEN 999999998 ELSE pair.cp.v

\* Variant of advantage_result: the two-mover test of lines 220-222 left out
advantage_result_keeps_three(t, n, score, solution) ==
    IF ~solution.ok \/ solution.seq = <<>> THEN score
    ELSE LET trimmed == trim(solution.seq) IN
         IF ~trimmed.ok THEN Raised
         ELSE IF trimmed.seq = <<>> \/ Len(trimmed.seq) = 1 THEN score
         ELSE Puzzle(n, [i \in 1..Len(trimmed.seq) |-> trimmed.seq[i].move],
                     rating(trimmed.seq[Len(trimmed.seq)]))

\* lines 211-224
advantage_result(t, n, score, solution) ==
    IF ~solution.ok \/ solution.seq = <<>> THEN score
    ELSE LET trimmed == trim(solution.seq) IN
         IF ~trimmed.ok THEN Raised
         ELSE IF trimmed.seq = <<>> \/ Len(trimmed.seq) = 1 THEN score
         ELSE IF t < 3 /\ Len(trimmed.seq) = 3 THEN score
         ELSE Puzzle(n, [i \in 1..Len(trimmed.seq) |-> trimmed.seq[i].move],
                     rating(trimmed.seq[Len(trimmed.seq)]))

\* Score.score(): the centipawn score, None for a mate score
score_cp(s) == IF s.k = "cp" THEN s ELSE None

\* ------------------------------------------------------- analyze_game
\* board.epd(): the position without its move counters. A position is told
\* apart by the irreversible moves made so far (no position from before one
\* can come back after it), the side to move and the placement.
epd(b) == <<b.epoch, b.turn, b.k>>

\* board.push(move). irr: board.is_irreversible(move); k: the placement
\* reached; loses: the move gives up a castling right, which only an
\* irreversible move does.
push(b, irr, k, loses) ==
    [epoch |-> b.epoch + (IF irr THEN 1 ELSE 0), turn |-> Other(b.turn),
     k |-> k, rights_max |-> b.rights_max /\ ~loses]

\* board.castling_rights != maximum_castling_rights(board), line 154: some
\* castling right has been lost
castling_lost(b) == ~b.rights_max

\* Variants of cleared: seen_epds.clear() at every iteration that goes on to
\* line 141; seen_epds.clear() left out
cleared_always(skip, seen) == {}
cleared_never(skip, seen) == seen

\* lines 133-136: the seen set after the skip handling of an iteration that
\* goes on to line 141
cleared(skip, seen) == IF skip THEN {} ELSE seen

\* Variant of step_pc: a missing evaluation only skips the ply
step_pc_tolerant(ev, fresh, lost) ==
    IF ev = None THEN "loop"
    ELSE IF ~fresh THEN "loop"
    ELSE IF lost THEN "loop"
    ELSE "analyze"

\* Variant of step_pc: the castling test of lines 154-155 left out
step_pc_any_castling(ev, fresh, lost) ==
    IF ev = None THEN "done"
    ELSE IF ~fresh THEN "loop"
    ELSE "analyze"

\* lines 143-157: where the iteration goes once the skip handling let it
\* through. fresh: the position key was not in the seen set; lost: the
\* castling rights are not the maximum ones.
step_pc(ev, fresh, lost) ==
    IF ev = None THEN "done"
    ELSE IF ~fresh THEN "loop"
    ELSE IF lost THEN "loop"
    ELSE "analyze"

\* Variant of after_position: the returned score is kept without negation
after_position_same_side(res, prev, cur) ==
    IF IsPuzzle(res) THEN [pc |-> "done", result |-> res, prev_score |-> prev]
    ELSE [pc |-> "loop", result |-> cur, prev_score |-> res]

\* lines 159-162: what analyze_game does with analyze_position's result
after_position(res, prev, cur) ==
    IF IsPuzzle(res) THEN [pc |-> "done", result |-> res, prev_score |-> prev]
    ELSE [pc |-> "loop", result |-> cur, prev_score |-> Neg(res)]

VARIABLES
    tier,                     \* analyze_game's tier argument
    pc,                       \* where the run is
    ply,                      \* mainline nodes iterated so far
    board,                    \* analyze_game's board
    seen_epds,                \* analyze_game's seen_epds
    skip_until_irreversible,  \* analyze_game's flag
    prev_score,               \* analyze_game's prev_score
    node,                     \* the mainline node of the current iteration
    result,                   \* what analyze_game returned
    ret,                      \* what the last analyze_position call returned
    winner,                   \* analyze_position's winner
    score,                    \* analyze_position's score
    cook_turn,                \* side to move at the cooked line's current node
    frames,                   \* one element per active cook_* call that recursed
    checks,                   \* what cook_mate found at each node it visited
    cooked,                   \* what the outermost cook_* call returned
    game_seen,                \* server: set_seen was called for the game
    hist,                     \* history of the run
    probe,                    \* a call of a forcing predicate on its own
    puzzle_node,              \* the node handed to cook_*
    line,                     \* positions of the cooked line's nodes
    calls                     \* server and engine calls made for the ply

vars == <<tier, pc, ply, board, seen_epds, skip_until_irreversible,
          prev_score, node, result, ret, winner, score, cook_turn, frames,
          checks, cooked, game_seen, hist, probe, puzzle_node, line, calls>>

gameVars == <<ply, board, seen_epds, skip_until_irreversible, node>>
frameVars == <<winner, score, cook_turn, frames, checks, cooked,
               puzzle_node, line>>

\* What the innermost cook_* call found: the game over, a repetition, or a
\* probe (on the winner's turn or not, is_valid_attack of the probed pair,
\* its best score below +200cp)
Terminal(what) ==
    [what |-> what, attacker |-> FALSE, valid |-> FALSE, below |-> FALSE]
Probed(attacker, valid, below) ==
    [what |-> "probe", attacker |-> attacker, valid |-> valid, below |-> below]
NotCooked == [kind |-> "none", sol |-> Absent, last |-> Terminal("none")]
NodeRef(n) == [ply |-> n.ply, copy |-> n.copy]

\* Variant of deepcopy: the node itself is handed on
deepcopy_alias(n) == n

\* copy.deepcopy(node), lines 196 and 208: a node of an independent copy of
\* the game tree
deepcopy(n) == [n EXCEPT !.copy = TRUE]

\* node.add_main_variation(move) on the line grown from `target` (lines 92
\* and 115), seen from the game's own node n: a child under it only if the
\* line grows in the game's own tree
add_main_variation(n, target) ==
    IF target.copy THEN n ELSE [n EXCEPT !.added = @ + 1]

\* A call analyze_position makes, directly or through cook_*, on the server
\* (is_seen_pos with its answer, set_seen) or on the engine (get_next_pair:
\* engine.analyse, get_next_move: engine.play).
Call(name, answer) == [call |-> name, answer |-> answer]
EngineCalls == {"get_next_pair", "get_next_move"}

\* Variant of cooks: the answer of is_seen_pos is not looked at
cooks_whatever_seen(branch, seen) == branch # "score"

\* lines 193-196 and 205-209: whether analyze_position goes on to cook
cooks(branch, seen) == branch # "score" /\ ~seen

\* Variant of after_cook_advantage: the game is marked only when cooking
\* gave a line
after_cook_advantage_if_solved(log, solution) ==
    IF solution.ok THEN Append(log, Call("set_seen", FALSE)) ELSE log

\* line 210: the calls made once cook_advantage has returned
after_cook_advantage(log, solution) == Append(log, Call("set_seen", FALSE))

\* ---- the rules library on the positions of a cooked line
\* A line is the sequence of the positions of its nodes, the root first;
\* positions are numbered in the order of their first occurrence.
occurrences(l) == Cardinality({i \in 1..Len(l) : l[i] = l[Len(l)]})

\* Variant of is_repetition: a position is never found repeated
is_repetition_never(l, count) == FALSE

\* board.is_repetition(count) at the last node of the line
is_repetition(l, count) == occurrences(l) >= count

fivefold == 5

\* What the rules library answers at the last node of the line l. With
\* positions = 0 the positions are not told apart (l stays empty) and every
\* answer is possible; else the line moves among `positions` positions.
\* board.is_repetition(2), line 104
repetition_answers(l, positions) ==
    IF positions = 0 THEN BOOLEAN ELSE {is_repetition(l, 2)}

\* board.is_game_over(), line 75: checkmate, stalemate, insufficient
\* material, the 75-move rule (any of them: either answer) or fivefold
\* repetition
game_over_answers(l, positions) ==
    IF positions = 0 THEN BOOLEAN
    ELSE IF is_repetition(l, fivefold) THEN {TRUE} ELSE BOOLEAN

\* the positions a move can lead to from the last node of the line
reachable(l, positions) ==
    IF positions = 0 THEN {0}
    ELSE {p \in 1..positions : \A q \in 1..(p - 1) : \E i \in 1..Len(l) : l[i] = q}

\* the line after a move to position p
moved_to(l, positions, p) == IF positions = 0 THEN l ELSE Append(l, p)

\* analyze_position is not running: its locals do not exist
NoFrame ==
    /\ winner = "white"
    /\ score = None
    /\ cook_turn = "white"
    /\ frames = <<>>
    /\ checks = <<>>
    /\ cooked = NotCooked
    /\ puzzle_node = NodeRef([ply |-> 0, copy |-> FALSE])
    /\ line = <<>>

Init ==
    /\ tier = main_tier
    /\ pc = "loop"
    /\ ply = 0
    /\ board = [epoch |-> 0, turn |-> "white", k |-> "start",
                rights_max |-> TRUE]
    /\ seen_epds = {}
    /\ skip_until_irreversible = FALSE
    /\ prev_score = Cp(20)
    /\ node = [ply |-> 0, copy |-> FALSE, mode |-> "root", has_eval |-> FALSE,
               eval |-> None, analyzed |-> FALSE, added |-> 0]
    /\ result = None
    /\ ret = None
    /\ NoFrame
    /\ game_seen = FALSE
    /\ hist = [blind |-> FALSE, first_puzzle |-> 0, last_call |-> 0]
    /\ probe = [called |-> FALSE]
    /\ calls = <<>>

\* One iteration of the for loop, lines 132-157, up to the call of
\* analyze_position. ev is node.eval() (White's point of view) or None.
\* The node keeps what the iteration read of it: in skip mode nothing, else
\* whether it has an evaluation, and the evaluation if analyze_position is
\* called with it.
analyze_game_step(irr, ev, k, loses) ==
    /\ pc = "loop"
    /\ ply < MaxPlies
    /\ loses => irr /\ board.rights_max
    /\ ply' = ply + 1
    /\ UNCHANGED <<tier, prev_score, ret, game_seen, probe>>
    /\ UNCHANGED frameVars
    /\ calls' = <<>>
    /\ IF skip_until_irreversible /\ ~irr
       THEN \* lines 137-139
            /\ board' = push(board, irr, k, loses)
            /\ node' = [ply |-> ply + 1, copy |-> FALSE, mode |-> "skipped",
                        has_eval |-> FALSE, eval |-> None, analyzed |-> FALSE,
                        added |-> 0]
            /\ hist' = [hist EXCEPT !.blind = @ \/ ev = None]
            /\ UNCHANGED <<pc, seen_epds, skip_until_irreversible, result>>
       ELSE LET seen0 == cleared(skip_until_irreversible, seen_epds)
                mode == IF skip_until_irreversible THEN "resumed" ELSE "normal"
                pushed == push(board, irr, k, loses)
                fresh == ev # None /\ epd(pushed) \notin seen0
                next == step_pc(ev, epd(pushed) \notin seen0,
                                castling_lost(pushed))
                call == next = "analyze"
            IN  /\ hist' = hist
                /\ node' = [ply |-> ply + 1, copy |-> FALSE, mode |-> mode,
                            has_eval |-> ev # None,
                            eval |-> IF call THEN ev ELSE None,
                            analyzed |-> call, added |-> 0]
                /\ board' = IF ev = None THEN board ELSE pushed
                /\ seen_epds' = IF fresh THEN seen0 \cup {epd(pushed)} ELSE seen0
                /\ skip_until_irreversible' = (ev # None /\ ~fresh)
                /\ pc' = next
                /\ result' = None

\* The mainline is exhausted: lines 164-166.
analyze_game_end ==
    /\ pc = "loop"
    /\ pc' = "done"
    /\ result' = None
    /\ UNCHANGED <<tier, prev_score, ret, game_seen, hist, probe, calls>>
    /\ UNCHANGED gameVars
    /\ UNCHANGED frameVars

\* analyze_position returns res to analyze_game (or raises): its locals go.
Return(res) ==
    /\ ret' = res
    /\ winner' = "white"
    /\ score' = None
    /\ cook_turn' = "white"
    /\ frames' = <<>>
    /\ checks' = <<>>
    /\ cooked' = NotCooked
    /\ puzzle_node' = NodeRef([ply |-> 0, copy |-> FALSE])
    /\ line' = <<>>
    /\ IF res = Raised
       THEN pc' = "raised" /\ UNCHANGED <<result, prev_score, hist>>
       ELSE LET a == after_position(res, prev_score, result) IN
            /\ pc' = a.pc
            /\ result' = a.result
            /\ prev_score' = a.prev_score
            /\ hist' = [hist EXCEPT
                          !.first_puzzle = IF IsPuzzle(res) /\ @ = 0
                                           THEN node.ply ELSE @,
                          !.last_call = node.ply]

\* analyze_position, lines 169-209, up to its return or its first probe.
\* seen: what server.is_seen_pos answers if asked.
\* positions: how many positions the cooked line will move among.
analyze_position(few, md, seen, positions) ==
    /\ pc = "analyze"
    /\ UNCHANGED <<tier, game_seen, probe>>
    /\ UNCHANGED gameVars
    /\ LET w == board.turn
           sc == Pov(node.eval, "white", w)
           branch == classify(few, prev_score, sc, md, tier)
       IN  /\ calls' = IF branch = "score" THEN calls
                       ELSE Append(calls, Call("is_seen_pos", seen))
           /\ IF ~cooks(branch, seen)
              THEN Return(sc)
              ELSE /\ winner' = w
                   /\ score' = sc
                   /\ cook_turn' = w
                   /\ puzzle_node' = deepcopy(NodeRef(node))
                   /\ line' = IF positions = 0 THEN <<>> ELSE <<1>>
                   /\ pc' = IF branch = "mate" THEN "cook_mate"
                            ELSE "cook_advantage"
                   /\ UNCHANGED <<frames, checks, cooked, result, ret,
                                  prev_score, hist>>

\* The outermost cook_* call returns sol to analyze_position.
returned(sol, last) ==
    /\ cooked' = [kind |-> IF pc = "cook_mate" THEN "mate" ELSE "advantage",
                  sol |-> sol, last |-> last]
    /\ pc' = IF pc = "cook_mate" THEN "mate_cooked" ELSE "advantage_cooked"
    /\ UNCHANGED <<cook_turn, frames, line, node>>

\* One call of cook_mate on the node reached by the moves in frames,
\* lines 71-92; when it does not recurse, the returns of the calls above it
\* (lines 94-97).
cook_mate(cap, positions) ==
    /\ pc = "cook_mate"
    /\ UNCHANGED <<tier, winner, score, probe, game_seen, result, ret,
                   prev_score, hist, puzzle_node>>
    /\ UNCHANGED <<ply, board, seen_epds, skip_until_irreversible>>
    /\ \E over \in game_over_answers(line, positions) :
       IF over
       THEN \* board.is_game_over(); by checkmate or not. The root has two
            \* legal moves or more (line 175), so it is no checkmate.
            \E checkmate \in IF frames = <<>> THEN {FALSE} ELSE BOOLEAN :
            /\ checks' = Append(checks, [attacker |-> cook_turn = winner,
                            over |-> TRUE, valid |-> TRUE, soon |-> TRUE,
                            moved |-> FALSE, checkmate |-> checkmate])
            /\ calls' = calls
            /\ returned(Unwind(frames, Some(<<>>)), Terminal("over"))
       ELSE
       \/ \* the winner's turn
          /\ cook_turn = winner
          /\ calls' = Append(calls, Call("get_next_pair", FALSE))
          /\ \E lines \in EngineLines :
             LET probed == get_next_move_pair(lines, cook_turn, winner) IN
             \E info \in IF requeries(probed) THEN InfoLines ELSE {<<>>} :
             LET pair == get_next_pair(probed, cook_turn, winner, info)
                 step == mate_step(pair)
             IN  /\ checks' = Append(checks, [attacker |-> TRUE,
                          over |-> FALSE,
                          valid |-> is_valid_attack(probed, info),
                          soon |-> ~Lt(probed.best, mate_soon),
                          moved |-> step = "go", checkmate |-> FALSE])
                 /\ IF step = "fail"
                    THEN returned(Unwind(frames, Absent),
                                  Probed(TRUE, is_valid_attack(probed, info),
                                         Lt(probed.best, Cp(200))))
                    ELSE /\ Len(frames) < cap
                         /\ frames' = Append(frames, Move(Len(frames), "best"))
                         /\ cook_turn' = Other(cook_turn)
                         /\ node' = add_main_variation(node, puzzle_node)
                         /\ \E p \in reachable(line, positions) :
                               line' = moved_to(line, positions, p)
                         /\ UNCHANGED <<pc, cooked>>
       \/ \* the defender's turn; moved: engine.play gave a move
          /\ cook_turn # winner
          /\ calls' = Append(calls, Call("get_next_move", FALSE))
          /\ \E moved \in BOOLEAN :
             /\ checks' = Append(checks, [attacker |-> FALSE, over |-> FALSE,
                          valid |-> TRUE, soon |-> TRUE, moved |-> moved,
                          checkmate |-> FALSE])
             /\ IF ~moved
                THEN returned(Unwind(frames, Absent), Terminal("no_move"))
                ELSE /\ Len(frames) < cap
                     /\ frames' = Append(frames, Move(Len(frames), "play"))
                     /\ cook_turn' = Other(cook_turn)
                     /\ node' = add_main_variation(node, puzzle_node)
                     /\ \E p \in reachable(line, positions) :
                           line' = moved_to(line, positions, p)
                     /\ UNCHANGED <<pc, cooked>>

\* analyze_position after cook_mate returned: lines 197-199.
finish_mate ==
    /\ pc = "mate_cooked"
    /\ UNCHANGED <<tier, game_seen, probe, calls>>
    /\ UNCHANGED gameVars
    /\ Return(mate_result(tier, NodeRef(node), score, cooked.sol))

\* One call of cook_advantage, lines 100-115; when it does not recurse, the
\* returns of the calls above it (lines 117-120).
cook_advantage(cap, positions) ==
    /\ pc = "cook_advantage"
    /\ UNCHANGED <<tier, winner, score, checks, probe, game_seen, result, ret,
                   prev_score, hist, puzzle_node>>
    /\ UNCHANGED <<ply, board, seen_epds, skip_until_irreversible>>
    /\ \E repeated \in repetition_answers(line, positions) :
       IF repeated
       THEN \* board.is_repetition(2)
            /\ calls' = calls
            /\ returned(Unwind(frames, Absent), Terminal("repetition"))
       ELSE
          /\ calls' = Append(calls, Call("get_next_pair", FALSE))
          /\ \E lines \in EngineLines :
             LET probed == get_next_move_pair(lines, cook_turn, winner) IN
             \E info \in IF cook_turn = winner /\ requeries(probed)
                         THEN InfoLines ELSE {<<>>} :
             LET pair == get_next_pair(probed, cook_turn, winner, info)
                 step == advantage_step(pair)
             IN  IF step = "go"
                 THEN /\ Len(frames) < cap
                      /\ frames' = Append(frames,
                             [attacker |-> cook_turn = winner,
                              move |-> Move(Len(frames), "best"),
                              cp |-> score_cp(pair.best),
                              second |-> pair.second # None])
                      /\ cook_turn' = Other(cook_turn)
                      /\ node' = add_main_variation(node, puzzle_node)
                      /\ \E p \in reachable(line, positions) :
                            line' = moved_to(line, positions, p)
                      /\ UNCHANGED <<pc, cooked>>
                 ELSE returned(Unwind(frames,
                             IF step = "stop" THEN Some(<<>>) ELSE Absent),
                          Probed(cook_turn = winner,
                                 is_valid_attack(probed, info),
                                 Lt(probed.best, Cp(200))))

\* analyze_position after cook_advantage returned: lines 210-224.
finish_advantage ==
    /\ pc = "advantage_cooked"
    /\ UNCHANGED <<tier, probe>>
    /\ UNCHANGED gameVars
    /\ game_seen' = TRUE
    /\ calls' = after_cook_advantage(calls, cooked.sol)
    /\ Return(advantage_result(tier, NodeRef(node), score, cooked.sol))

Next ==
    \/ \E irr \in BOOLEAN, k \in Placements, loses \in BOOLEAN :
       \E ev \in IF skip_until_irreversible /\ ~irr
                 THEN {None, Cp(0)} ELSE GameEvals \cup {None} :
          analyze_game_step(irr, ev, k, loses)
    \/ analyze_game_end
    \/ \E few \in BOOLEAN, md \in MaterialDiffs, seen \in BOOLEAN :
          analyze_position(few, md, seen, 0)
    \/ cook_mate(GameLineCap, 0)
    \/ finish_mate
    \/ cook_advantage(GameLineCap, 0)
    \/ finish_advantage

Spec == Init /\ [][Next]_vars

\* ------------------------------------------- analyze_position on its own
\* A call analyze_position(node, prev_score, current_eval, tier) with Black
\* to move at the node, so that current_eval.pov(winner) negates.
InitPos ==
    /\ tier \in Tiers
    /\ pc = "analyze"
    /\ ply = 1
    /\ board = [epoch |-> 0, turn |-> "black", k |-> "a", rights_max |-> TRUE]
    /\ seen_epds = {epd(board)}
    /\ skip_until_irreversible = FALSE
    /\ prev_score \in PosPrevScores
    /\ \E ev \in PosEvals :
          node = [ply |-> 1, copy |-> FALSE, mode |-> "normal",
                  has_eval |-> TRUE, eval |-> ev, analyzed |-> TRUE,
                  added |-> 0]
    /\ result = None
    /\ ret = None
    /\ NoFrame
    /\ game_seen = FALSE
    /\ hist = [blind |-> FALSE, first_puzzle |-> 0, last_call |-> 0]
    /\ probe = [called |-> FALSE]
    /\ calls = <<>>

NextPos ==
    \/ \E few \in BOOLEAN, md \in MaterialDiffs, seen \in BOOLEAN :
          analyze_position(few, md, seen, 0)
    \/ cook_mate(MaxLine, 0)
    \/ finish_mate
    \/ cook_advantage(MaxLine, 0)
    \/ finish_advantage

SpecPos == InitPos /\ [][NextPos]_vars

\* ---------------------------------------- is_valid_mate_in_one on its own
\* A call is_valid_mate_in_one(pair) on a pair probed on the winner's turn;
\* info is what engine.analyse answers if line 45 is reached.
call_is_valid_mate_in_one(lines, info) ==
    /\ ~probe.called
    /\ LET pair == get_next_move_pair(lines, "white", "white") IN
       probe' = [called |-> TRUE, pair |-> pair,
                 requeried |-> requeries(pair),
                 info |-> IF requeries(pair) THEN info ELSE <<>>,
                 value |-> is_valid_mate_in_one(pair, info)]
    /\ UNCHANGED <<tier, pc, result, ret, prev_score, game_seen, hist, calls>>
    /\ UNCHANGED gameVars
    /\ UNCHANGED frameVars

NextProbe ==
    \E lines \in EngineLines, info \in InfoLines :
        call_is_valid_mate_in_one(lines, info)

SpecProbe == Init /\ [][NextProbe]_vars

\* ------------------------------------------------ get_next_pair on its own
\* A call get_next_pair(node, winner) with `turn` to move at the node; lines
\* is what engine.analyse answers, info what it answers if line 45 is
\* reached.
call_get_next_pair(lines, turn, w, info) ==
    /\ ~probe.called
    /\ LET pair == get_next_move_pair(lines, turn, w)
           asked == turn = w /\ requeries(pair)
       IN  probe' = [called |-> TRUE, pair |-> pair, turn |-> turn,
                     winner |-> w,
                     info |-> IF asked THEN info ELSE <<>>,
                     valid |-> is_valid_attack(pair, info),
                     value |-> get_next_pair(pair, turn, w, info)]
    /\ UNCHANGED <<tier, pc, result, ret, prev_score, game_seen, hist, calls>>
    /\ UNCHANGED gameVars
    /\ UNCHANGED frameVars

NextPair ==
    \E lines \in EngineLines, turn \in {"white", "black"},
       w \in {"white", "black"}, info \in InfoLines :
        call_get_next_pair(lines, turn, w, info)

SpecPair == Init /\ [][NextPair]_vars

\* ------------------------------- cooking over a finite set of positions
\* An analyze_position call whose cooked line moves among MaxPositions
\* positions. A line that visits a position for the fifth time is game-over,
\* so no line has more than LineCap nodes.
LineCap == (fivefold - 1) * MaxPositions + 1

NextLine ==
    \/ \E few \in BOOLEAN, md \in MaterialDiffs, seen \in BOOLEAN :
          analyze_position(few, md, seen, MaxPositions)
    \/ cook_mate(LineCap, MaxPositions)
    \/ finish_mate
    \/ cook_advantage(LineCap, MaxPositions)
    \/ finish_advantage

\* the program runs on: a call that can take its next step takes it
SpecLine == InitPos /\ [][NextLine]_vars /\ WF_vars(NextLine)

\* ===================================================== analyze_game claims
Inspected == node.mode \in {"normal", "resumed"}

\* C1, as stated: analyze_game returns no Puzzle for a game in which some
\* mainline ply has no evaluation, wherever that ply lies; here the ply lies
\* in a skip-until-irreversible stretch the scan has passed.
C1_NoPuzzleWhenSomePlyUnannotated ==
    (pc = "done" /\ IsPuzzle(result)) => ~hist.blind

\* C1, amended: the scan ends with absence at the first ply whose evaluation
\* it reads and finds missing; it reads the evaluation of every ply it
\* reaches but the reversible plies passed in skip mode, so a Puzzle is only
\* returned at a ply that has an evaluation.
C1_AbsenceAtFirstMissingEvalRead ==
    /\ (Inspected /\ ~node.has_eval) => (pc = "done" /\ result = None)
    /\ IsPuzzle(result) => (Inspected /\ node.has_eval)
    /\ node.mode = "skipped" => (pc \in {"loop", "done"} /\ result = None)

C1_MissingEvalReadAfterAnalysis ==
    /\ pc = "done"
    /\ Inspected
    /\ ~node.has_eval
    /\ node.ply >= 2
    /\ IsScore(ret)
    /\ result = None

\* While skip_until_irreversible is set no analysis runs and no Puzzle is out
NoAnalysisWhileSkipping ==
    skip_until_irreversible =>
        /\ pc \in {"loop", "done"}
        /\ ~node.analyzed
        /\ ~IsPuzzle(result)
        /\ seen_epds # {}

\* A step takes keys out of seen_epds iff it is the iteration that meets an
\* irreversible move in skip mode, and then it takes all of them out
ClearedExactlyAtIrreversible ==
    [][ /\ (~(seen_epds \subseteq seen_epds')) <=>
              (skip_until_irreversible /\ ply' = ply + 1
                  /\ node'.mode = "resumed")
        /\ (~(seen_epds \subseteq seen_epds')) =>
              (seen_epds \cap seen_epds' = {}) ]_vars

\* C2: from the ply at which a position key is found in seen_epds up to the
\* next irreversible move, analyze_position is not called and no Puzzle is
\* returned; seen_epds is cleared exactly at the iteration that meets that
\* irreversible move, and at no other step of the scan.
C2_SkipStretch == []NoAnalysisWhileSkipping /\ ClearedExactlyAtIrreversible

C2_InsideSkipStretch ==
    /\ skip_until_irreversible
    /\ node.mode = "skipped"
    /\ Cardinality(seen_epds) >= 2
    /\ pc = "loop"

\* C3, as stated: the irreversible move that ends skip mode is only applied
\* to the board: whatever its evaluation the scan goes on, its key is not
\* added to seen_epds and analyze_position is not called for it.
C3_ResumingPlyOnlyApplied ==
    node.mode = "resumed" =>
        /\ pc = "loop"
        /\ seen_epds = {}
        /\ ~node.analyzed

\* C3, amended: the irreversible move that ends skip mode is processed like
\* any ply after seen_epds is cleared: a missing evaluation ends the game
\* with absence; else the move is applied, its key becomes the only key of
\* seen_epds, and analyze_position is called for this very ply unless a
\* castling right has been lost.
C3_ResumingPlyProcessed ==
    node.mode = "resumed" =>
        /\ ~skip_until_irreversible
        /\ IF ~node.has_eval
           THEN pc = "done" /\ result = None /\ seen_epds = {}
           ELSE /\ seen_epds = {epd(board)}
                /\ node.analyzed <=> ~castling_lost(board)

C3_ResumingPlyAnalyzed ==
    /\ node.mode = "resumed"
    /\ node.analyzed
    /\ pc = "analyze"
    /\ seen_epds = {epd(board)}

\* C4: the Puzzle of the first ply at which analyze_position yields one is
\* what analyze_game returns, and nothing is done for the game after it; a
\* scan in which no ply yields a Puzzle ends by returning absence.
C4_FirstPuzzleElseAbsence ==
    /\ hist.first_puzzle # 0 =>
          /\ pc = "done"
          /\ result = ret
          /\ IsPuzzle(result)
          /\ result.node.ply = hist.first_puzzle
          /\ ply = hist.first_puzzle
          /\ NoFrame
    /\ (hist.first_puzzle = 0 /\ pc \notin {"loop", "analyze", "cook_mate",
            "mate_cooked", "cook_advantage", "advantage_cooked"}) =>
          (pc = "done" /\ result = None)

\* ================================================ analyze_position claims
\* The length trimming leaves of s: the last odd position whose pair has a
\* second line, 0 if there is none
KeptLen(s) ==
    LET C == {n \in 1..Len(s) : n % 2 = 1 /\ s[n].second} IN
    IF C = {} THEN 0 ELSE CHOOSE n \in C : \A m \in C : m <= n

\* cook_advantage returned after a probe, made with `plies` moves played, at
\* which the best score was below +200cp
DroppedAfter(plies) ==
    /\ pc = "advantage_cooked"
    /\ cooked.last.what = "probe"
    /\ cooked.last.below
    /\ Len(frames) = plies

\* C5: a Puzzle of the advantage branch has a solution of odd length at
\* least 3, at least 5 when tier < 3; its moves are the best moves of a
\* prefix of what cook_advantage returned; the last retained pair has a
\* second line and was probed on the favored side's turn.
C5_AdvantagePuzzleShape ==
    [][ (pc = "advantage_cooked" /\ IsPuzzle(ret')) =>
          LET s == cooked.sol.seq
              m == ret'.moves
              n == Len(m)
          IN  /\ cooked.sol.ok
              /\ n % 2 = 1
              /\ n >= 3
              /\ tier < 3 => n >= 5
              /\ n <= Len(s)
              /\ n = KeptLen(s)
              /\ \A i \in 1..n : m[i] = s[i].move
              /\ s[n].second
              /\ s[n].attacker ]_vars

C5_FiveMovePuzzleBelowTierThree ==
    /\ IsPuzzle(ret)
    /\ game_seen
    /\ tier < 3
    /\ Len(ret.moves) = 5
    /\ ret.rating # 999999999

\* C6: on every non-empty sequence cook_advantage returns, the trimming loop
\* ends normally; a sequence trimmed to nothing or to one pair is discarded
\* and the score returned; no error is raised.
C6_TrimmingNeverRaises ==
    [][ (pc = "advantage_cooked" /\ cooked.sol.ok /\ cooked.sol.seq # <<>>) =>
          /\ ret' # Raised
          /\ KeptLen(cooked.sol.seq) <= 1 => ret' = score ]_vars

\* C7, as stated: when the best score drops below +200cp at the probe made
\* after 4 plies, the 4 pairs are kept, trimmed to 3, and a Puzzle is
\* emitted whose rating is the centipawn value of the third pair.
C7_DropKeepsPairs ==
    [][ DroppedAfter(4) =>
          /\ IsPuzzle(ret')
          /\ Len(ret'.moves) = 3
          /\ ret'.rating = rating(frames[3]) ]_vars

\* C7, amended: when the best score is below +200cp at the probe made after
\* 4 plies, a pair that passes is_valid_attack makes cook_advantage return
\* absence and analyze_position return the score; a pair that fails it
\* makes cook_advantage return the 4 pairs, and then a Puzzle of the first 3
\* best moves, rated by the third pair, is emitted iff tier >= 3 and the
\* third pair has a second line.
C7_DropDiscardsUnlessAttackInvalid ==
    [][ DroppedAfter(4) =>
          IF cooked.last.valid
          THEN ~cooked.sol.ok /\ ret' = score
          ELSE /\ cooked.sol = Some(frames)
               /\ IF tier >= 3 /\ frames[3].second
                  THEN ret' = Puzzle(NodeRef(node),
                                     [i \in 1..3 |-> frames[i].move],
                                     rating(frames[3]))
                  ELSE ~IsPuzzle(ret') ]_vars

C7_DropWithInvalidAttack ==
    /\ DroppedAfter(4)
    /\ ~cooked.last.valid
    /\ tier >= 3
    /\ frames[3].second
    /\ frames[3].cp # None

\* C8: in the mate branch a Puzzle is emitted iff cook_mate returned a
\* sequence and not (tier = 1 and the sequence has 3 moves); the Puzzle is
\* at the analyzed node, carries the very sequence cook_mate returned and
\* has rating 999999999; otherwise the score is returned.
C8_MatePuzzleEmission ==
    [][ pc = "mate_cooked" =>
          LET sol == cooked.sol
              emit == sol.ok /\ ~(tier = 1 /\ Len(sol.seq) = 3)
          IN  /\ IsPuzzle(ret') <=> emit
              /\ emit => /\ ret'.node = [ply |-> node.ply, copy |-> FALSE]
                         /\ ret'.moves = sol.seq
                         /\ ret'.rating = 999999999
              /\ ~emit => ret' = score ]_vars

C8_ThreeMoveMateAtTierTwo ==
    /\ IsPuzzle(ret)
    /\ ret.rating = 999999999
    /\ Len(ret.moves) = 3
    /\ tier = 2

\* C9: cook_mate returns a sequence only if its line ends in a game-over
\* position, every favored-side ply before it had a pair that passed
\* is_valid_attack with a best score of mate within 15, and every defender
\* ply got a move; a failing ply makes the whole call return absence; each
\* node of the line is probed once.
C9_MateLineForced ==
    pc = "mate_cooked" =>
        LET n == Len(checks)
            last == checks[n]
        IN  /\ n = Len(frames) + 1
            /\ \A i \in 1..n : checks[i].attacker <=> (i % 2 = 1)
            /\ \A i \in 1..(n - 1) : ~checks[i].over /\ checks[i].moved
            /\ IF cooked.sol.ok
               THEN /\ last.over
                    /\ \A i \in 1..(n - 1) :
                          checks[i].attacker =>
                              (checks[i].valid /\ checks[i].soon)
                    /\ cooked.sol.seq = frames
               ELSE /\ ~last.over
                    /\ ~last.moved
                    /\ last.attacker => (~last.valid \/ ~last.soon)

C9_FullMateLine ==
    /\ pc = "mate_cooked"
    /\ cooked.sol.ok
    /\ Len(cooked.sol.seq) = 3

\* ============================================ is_valid_mate_in_one claims
\* C10, as stated: with best and second both mate in one, the result is
\* false iff some re-queried line that is not a mate has win chance > 0.6.
C10_OnlyNonMateLinesRefute ==
    (probe.called /\ probe.pair.best = Mate(1) /\ probe.pair.second = Mate(1))
        => (~probe.value <=>
                \E i \in 1..Len(probe.info) :
                    /\ probe.info[i].k = "cp"
                    /\ win_chances(probe.info[i]) > non_mate_win_threshold)

\* C10, amended: with best and second both mate in one, the engine is
\* re-queried and the result is false iff some re-queried line other than a
\* mate in one (a centipawn line or a mate in two or more) has win chance
\* > 0.6; with best mate in one and second absent or of win chance <= 0.6
\* it is true without a re-query; with best not mate in one it is false.
C10_LinesBelowMateInOneRefute ==
    probe.called =>
        LET best == probe.pair.best
            second == probe.pair.second
        IN  /\ best # Mate(1) => (~probe.value /\ ~probe.requeried)
            /\ (best = Mate(1) /\ second = None) =>
                  (probe.value /\ ~probe.requeried)
            /\ (best = Mate(1) /\ second # None
                    /\ win_chances(second) <= non_mate_win_threshold) =>
                  (probe.value /\ ~probe.requeried)
            /\ (best = Mate(1) /\ second = Mate(1)) =>
                  /\ probe.requeried
                  /\ ~probe.value <=>
                        \E i \in 1..Len(probe.info) :
                            /\ probe.info[i] # Mate(1)
                            /\ win_chances(probe.info[i]) > non_mate_win_threshold

C10_RefutedByLongerMate ==
    /\ probe.called
    /\ probe.requeried
    /\ ~probe.value
    /\ \A i \in 1..Len(probe.info) : probe.info[i].k = "mate"
    /\ \E i \in 1..Len(probe.info) : probe.info[i] = Mate(2)

\* ================================================== get_next_pair claims
\* C11: a pair without a second line passes is_valid_attack whatever its
\* best score, so get_next_pair returns it; get_next_pair returns None only
\* on the winner's turn for a pair that fails is_valid_attack (it has a
\* second line and its best is not more than 0.7 of win chance above it);
\* on the defender's turn it returns the probed pair.
C11_NoneOnlyForInvalidAttack ==
    probe.called =>
        LET pair == probe.pair IN
        /\ pair.second = None => (probe.valid /\ probe.value = pair)
        /\ probe.turn # probe.winner => probe.value = pair
        /\ probe.value # pair =>
              /\ probe.value = None
              /\ probe.turn = probe.winner
              /\ ~probe.valid
              /\ pair.second # None
              /\ win_chances(pair.best)
                     <= win_chances(pair.second) + attack_margin
        /\ (probe.turn = probe.winner /\ ~probe.valid) => probe.value = None

C11_LosingSingleLinePairReturned ==
    /\ probe.called
    /\ probe.turn = probe.winner
    /\ probe.pair.second = None
    /\ Lt(probe.pair.best, Cp(0))
    /\ probe.value = probe.pair

\* ============================================== analyze_position claims
\* C12: for a score that is a mate in N for the side to move, 1 <= N <= 15,
\* an analyze_position call that goes on to cook runs cook_mate and never
\* cook_advantage, N = 15 included.
C12_MateWithinFifteenCooksMate ==
    [][ LET sc == Pov(node.eval, "white", board.turn) IN
        (/\ pc = "analyze"
         /\ sc.k = "mate"
         /\ sc.v \in 1..15
         /\ pc' \in {"cook_mate", "cook_advantage"})
            => pc' = "cook_mate" ]_vars

Cooking == pc \in {"cook_mate", "cook_advantage", "mate_cooked", "advantage_cooked"}

\* cook_* works on a copy of the game's node; no move is ever added under
\* the game's node; a Puzzle starts at the game's node
CookedOnACopy ==
    /\ node.added = 0
    /\ Cooking => (puzzle_node.copy /\ puzzle_node.ply = node.ply)
    /\ IsPuzzle(ret) => (~ret.node.copy /\ ret.node.ply = node.ply)

\* a step of a cooking attempt leaves analyze_game's node, board, ply count,
\* seen set and flag as they are
CookingStepKeepsGame ==
    [][ Cooking => UNCHANGED <<node, board, ply, seen_epds,
                               skip_until_irreversible>> ]_vars

\* C13: a cooking attempt, whether it yields a line, fails or stops part-way,
\* leaves the analyzed node, the game's mainline and analyze_game's board
\* unchanged: the moves are added to an independent copy and the Puzzle
\* starts at the original node.
C13_CookingLeavesGameUnchanged == []CookedOnACopy /\ CookingStepKeepsGame

C13_PlyAfterFailedAttemptAnalyzed ==
    /\ pc = "analyze"
    /\ game_seen
    /\ IsScore(ret)
    /\ hist.last_call = node.ply - 1
    /\ node.added = 0

\* C14: in the mate branch and in the advantage branch is_seen_pos is asked
\* before any engine call for the position; when it answers that the
\* position is seen, analyze_position returns the score with no engine
\* probe, no cooking and no set_seen.
C14_SeenAskedBeforeEngine ==
    /\ \A i \in 1..Len(calls) :
          IF calls[i].call = "is_seen_pos" THEN i = 1
          ELSE i > 1 /\ calls[1] = Call("is_seen_pos", FALSE)
    /\ Cooking => calls # <<>>
    /\ (calls # <<>> /\ calls[1] = Call("is_seen_pos", TRUE)) =>
          /\ Len(calls) = 1
          /\ pc = "loop"
          /\ ret = Pov(node.eval, "white", board.turn)
          /\ ~game_seen

C14_SeenMatePositionReturnsScore ==
    /\ calls = <<Call("is_seen_pos", TRUE)>>
    /\ ret = Mate(3)
    /\ pc = "loop"

Marked == calls # <<>> /\ calls[Len(calls)].call = "set_seen"

\* C15, as stated: in the advantage branch the game is marked seen before
\* cook_advantage makes its first engine probe.
C15_MarkedBeforeFirstProbe ==
    (pc \in {"cook_advantage", "advantage_cooked"} /\ Len(calls) >= 2)
        => calls[2].call = "set_seen"

\* set_seen is the last call of a ply if it is made at all, and it is not
\* made while cook_* runs
MarkedLast ==
    /\ \A i \in 1..Len(calls) : calls[i].call = "set_seen" => i = Len(calls)
    /\ game_seen <=> Marked
    /\ Cooking => ~Marked

\* once cook_advantage has returned, whatever it returned, the game is marked
\* seen; the mate branch makes no set_seen call
MarkedAfterCookAdvantage ==
    [][ /\ pc = "advantage_cooked" =>
              (game_seen' /\ calls' = Append(calls, Call("set_seen", FALSE)))
        /\ pc \in {"cook_mate", "mate_cooked"} =>
              (~game_seen' /\ \A i \in 1..Len(calls') :
                                 calls'[i].call # "set_seen") ]_vars

\* C15, amended: in the advantage branch, when the position is not already
\* seen, the game is marked seen exactly once, after cook_advantage has
\* returned (after all its engine probes) and before its result is looked
\* at, so whatever cook_advantage returned; in the mate branch the game is
\* never marked.
C15_MarkedOnceAfterCooking == []MarkedLast /\ MarkedAfterCookAdvantage

C15_MarkedAfterFailedCooking ==
    /\ pc = "loop"
    /\ Marked
    /\ Len(calls) >= 4
    /\ IsScore(ret)
    /\ \A i \in 2..(Len(calls) - 1) : calls[i].call = "get_next_pair"

\* ============================================ analyze_game claims, continued
\* C16, as stated: at every ply after which the castling rights are not the
\* maximum ones, analyze_position is not called, prev_score and the skip
\* flag are unchanged, and the ply only applies the move and records its
\* key in seen_epds.
C16_CastlingLostPlyOnlyRecorded ==
    [][ (ply' = ply + 1 /\ board' # board /\ castling_lost(board')) =>
            /\ pc' = "loop"
            /\ prev_score' = prev_score
            /\ skip_until_irreversible' = skip_until_irreversible
            /\ seen_epds' = seen_epds \cup {epd(board')} ]_vars

\* analyze_position runs only on a board with the maximum castling rights
AnalyzedWithMaximumRights ==
    (node.analyzed \/ pc = "analyze" \/ Cooking) => ~castling_lost(board)

\* a ply that comes to the castling test with rights lost: the move is
\* applied, the key recorded, and nothing else changes
CastlingLostPlyAtTest ==
    [][ (/\ ply' = ply + 1
         /\ node'.mode \in {"normal", "resumed"}
         /\ node'.has_eval
         /\ epd(board') \notin cleared(skip_until_irreversible, seen_epds)
         /\ castling_lost(board')) =>
            /\ pc' = "loop"
            /\ ~node'.analyzed
            /\ prev_score' = prev_score
            /\ ret' = ret
            /\ result' = None
            /\ calls' = <<>>
            /\ ~skip_until_irreversible'
            /\ IF node'.mode = "normal"
               THEN /\ ~skip_until_irreversible
                    /\ seen_epds' = seen_epds \cup {epd(board')}
               ELSE seen_epds' = {epd(board')} ]_vars

\* C16, amended: at a ply that is reached outside skip mode, has an
\* evaluation, whose position key is not yet in seen_epds and whose
\* castling rights are not the maximum ones, analyze_position is not
\* called, prev_score and the skip flag are unchanged, and the only change
\* is that the move is applied and its key recorded (at the irreversible
\* ply that ends skip mode, seen_epds is first cleared and the flag reset).
\* analyze_position is only ever called with the maximum castling rights.
C16_CastlingLostPlyAtTestOnlyRecorded ==
    []AnalyzedWithMaximumRights /\ CastlingLostPlyAtTest

C16_CastlingLostPlyPassed ==
    /\ pc = "loop"
    /\ node.mode = "normal"
    /\ node.has_eval
    /\ ~node.analyzed
    /\ ~skip_until_irreversible
    /\ castling_lost(board)
    /\ epd(board) \in seen_epds
    /\ Cardinality(seen_epds) >= 3
    /\ IsScore(ret)

\* C17, as stated: at every call of analyze_position at a ply p other than
\* the first, prev_score is the negation of the score of ply p-1; at the
\* first ply it is +20cp.
C17_PrevScoreNegatesPreviousPly ==
    pc = "analyze" =>
        IF node.ply = 1 THEN prev_score = Cp(20)
        ELSE hist.last_call = node.ply - 1 /\ prev_score = Neg(ret)

\* C17, amended: at every call of analyze_position, prev_score is the
\* negation of the score returned by the latest earlier call of the game,
\* at whatever ply that call was made; at the first call it is +20cp.
C17_PrevScoreNegatesLastReturnedScore ==
    pc = "analyze" =>
        IF hist.last_call = 0 THEN prev_score = Cp(20) /\ ret = None
        ELSE /\ hist.last_call < node.ply
             /\ IsScore(ret)
             /\ prev_score = Neg(ret)

C17_PrevScoreFromOlderPly ==
    /\ pc = "analyze"
    /\ hist.last_call # 0
    /\ hist.last_call < node.ply - 1
    /\ prev_score = Neg(ret)
    /\ prev_score # Cp(20)

\* =========================================== mate puzzle claims, continued
\* C19, as stated: a Puzzle of rating 999999999 has a solution of odd
\* length whose last move is the winner's and which ends in a position
\* where the game is over by checkmate of the opponent.
C19_MaxRatedPuzzleEndsInCheckmate ==
    [][ (IsPuzzle(ret') /\ ret'.rating = 999999999 /\ ret' # ret) =>
            LET n == Len(ret'.moves)
                last == checks[Len(checks)]
            IN  /\ n % 2 = 1
                /\ ret'.moves[n].from = "best"
                /\ last.over
                /\ ~last.attacker
                /\ last.checkmate ]_vars

\* C19, amended: a Puzzle of rating 999999999 comes from cook_mate, and its
\* solution, possibly empty, is the line cook_mate played up to a node where
\* board.is_game_over() held: the winner's best moves at the odd positions,
\* the defender's engine.play moves at the even ones; that node is the
\* opponent's to move iff the length is odd; the game-over is not checked to
\* be a checkmate, and at the root (empty solution) it is none.
C19_MaxRatedPuzzleEndsInGameOver ==
    [][ (IsPuzzle(ret') /\ ret'.rating = 999999999 /\ ret' # ret) =>
            LET m == ret'.moves
                n == Len(m)
                last == checks[Len(checks)]
            IN  /\ pc = "mate_cooked"
                /\ Len(checks) = n + 1
                /\ \A i \in 1..n :
                      /\ m[i] = Move(i - 1, IF i % 2 = 1 THEN "best" ELSE "play")
                      /\ checks[i].moved
                      /\ ~checks[i].over
                      /\ checks[i].attacker <=> (i % 2 = 1)
                /\ last.over
                /\ last.attacker <=> (n % 2 = 0)
                /\ n = 0 => ~last.checkmate ]_vars

C19_MaxRatedPuzzleWithEmptySolution ==
    /\ IsPuzzle(ret)
    /\ ret.rating = 999999999
    /\ ret.moves = <<>>
    /\ pc = "done"

\* ======================================================= termination claims
\* the recursion of cook_* stays below the depth at which the model would
\* cut it: cook_advantage has at most one call per position, cook_mate at
\* most four per position and one more
DepthBounded ==
    /\ Len(frames) < LineCap
    /\ pc \in {"cook_advantage", "advantage_cooked"} =>
          Len(frames) <= MaxPositions
    /\ pc \in {"cook_mate", "mate_cooked"} =>
          Len(frames) <= (fivefold - 1) * MaxPositions
    /\ cooked.last.what = "repetition" => ~cooked.sol.ok

====
